---- MODULE Spec2Model ----
(***************************************************************************)
(* Model of bw_ssh_agent.py: the sequential workflow of main() over the    *)
(* BitwardenSSHAgent methods.  External commands (bw, ssh-agent, ssh-add), *)
(* the password prompt and the process environment are the environment of  *)
(* the model: each action draws the outcome of the commands it runs from   *)
(* a small set, and appends every invocation to the history `calls`.       *)
(*                                                                         *)
(* Python values: an Optional[x] is the sequence <<>> (None / key absent)  *)
(* or <<x>>.  Strings that the code transforms (tokens, names, filters)    *)
(* are sequences of one-character strings.                                 *)
(***************************************************************************)
EXTENDS Integers, Sequences, FiniteSets, TLC

VARIABLES
    pc,          \* position of main(): which step runs next
    dry_run,     \* --dry-run flag
    name_filter, \* --filter value (<<>> when not given)
    environ,     \* os.environ: BW_SESSION, SSH_AUTH_SOCK, SSH_AGENT_PID
    disk,        \* set of socket paths that exist on disk
    session_key, \* agent.session_key
    progress,    \* agent.task_id, agent.progress tasks, agent.live
    ssh_keys,    \* main's ssh_keys; inside get_ssh_keys its local ssh_keys
    items,       \* get_ssh_keys's local: the parsed listing (<<>> outside)
    idx,         \* index of the next key of the for loop (1-based)
    calls,       \* history: external invocations and prompts, in order
    printed,     \* history: console lines main prints about keys
    returned,    \* history: the methods main called and what they returned
    password,    \* get_session_key's local: the master password typed
    exit_code,   \* -1 while running, else the process exit code
    uncaught     \* name of the exception that escaped main, "" if none

vars == <<pc, dry_run, name_filter, environ, disk, session_key, progress,
          ssh_keys, items, idx, calls, printed, returned, password, exit_code,
          uncaught>>

----------------------------------------------------------------------------
(* Bounds *)

MaxItems == 2      \* longest vault listing
MaxOut == 2        \* longest raw output of bw unlock, in characters
MaxLines == 2      \* longest ssh-agent -s output, in lines

----------------------------------------------------------------------------
(* Python values *)

None == <<>>
Some(x) == <<x>>
IsNone(o) == o = <<>>

\* truthiness of an Optional[str]: None and "" are falsy
Truthy(o) == /\ o # <<>>
             /\ o[1] # <<>>

SeqsUpTo(S, n) == UNION {[1..k -> S] : k \in 0..n}

IsSpace(c) == c = " "

RECURSIVE LStrip(_)
LStrip(s) == IF s # <<>> /\ IsSpace(Head(s)) THEN LStrip(Tail(s)) ELSE s

RECURSIVE RStrip(_)
RStrip(s) == IF s # <<>> /\ IsSpace(s[Len(s)])
             THEN RStrip(SubSeq(s, 1, Len(s) - 1)) ELSE s

\* str.strip()
Strip(s) == RStrip(LStrip(s))

LowerChar(c) == CASE c = "A" -> "a"
                  [] c = "B" -> "b"
                  [] OTHER -> c

\* str.lower()
Lower(s) == [i \in 1..Len(s) |-> LowerChar(s[i])]

\* Python's `sub in s` on strings
Contains(s, sub) ==
    \E i \in 0..(Len(s) - Len(sub)) : SubSeq(s, i + 1, i + Len(sub)) = sub

----------------------------------------------------------------------------
(* Progress display: rich Progress + Live, driven by the agent *)

NoTasks == [i \in {} |-> 0]

InitProgress == [task_id |-> None, tasks |-> NoTasks, next_id |-> 0,
                 live |-> FALSE, raised |-> FALSE]

\* start_progress: live.start(); task_id = progress.add_task(total=...)
StartProgress(p, total) ==
    IF p.raised THEN p ELSE
    [p EXCEPT !.live = TRUE,
              !.task_id = Some(p.next_id),
              !.tasks = [i \in DOMAIN p.tasks \cup {p.next_id} |->
                           IF i = p.next_id
                           THEN [completed |-> 0, total |-> total]
                           ELSE p.tasks[i]],
              !.next_id = p.next_id + 1]

\* update_progress: progress.update(task_id, advance=...); KeyError when
\* the task was removed
UpdateProgress(p, advance) ==
    IF p.raised THEN p ELSE
    IF p.task_id # None /\ p.task_id[1] \in DOMAIN p.tasks
    THEN [p EXCEPT !.tasks[p.task_id[1]].completed = @ + advance]
    ELSE [p EXCEPT !.raised = TRUE]

\* stop_progress: progress.remove_task(task_id) (KeyError when the task is
\* not there); live.stop()
StopProgress(p) ==
    IF p.raised THEN p ELSE
    IF p.task_id # None /\ p.task_id[1] \in DOMAIN p.tasks
    THEN [p EXCEPT !.tasks = [i \in DOMAIN p.tasks \ {p.task_id[1]} |->
                                p.tasks[i]],
                   !.live = FALSE]
    ELSE [p EXCEPT !.raised = TRUE]

----------------------------------------------------------------------------
(* History of external invocations *)

\* one invocation: the argument vector, the BW_SESSION of the environment
\* it ran with, the data written to its input channel, and what came back
\* (exit code, -1 when nothing was spawned or entered; standard output: of
\* bw status and bw unlock in full, of bw list items only whether it was
\* JSON, of the other commands not at all)
Call(argv, session, input, rc, out) ==
    [argv |-> argv, session |-> session, input |-> input, rc |-> rc,
     out |-> out]

\* a method of the agent returned to main: its value, the truth value main
\* tests, and the number of invocations made by then
Return(fn, value, ok, at) == [fn |-> fn, value |-> value, ok |-> ok, at |-> at]

\* console.print of a line about the run
Line(kind, name, fingerprint) ==
    [kind |-> kind, name |-> name, fingerprint |-> fingerprint]

----------------------------------------------------------------------------
(* Inputs of a run *)

InheritedTokens == {None, Some(<<>>), Some(<<"o">>)}
SockValues == {None, Some("/s0")}
Filters == {<<>>, <<"a">>, <<"a", "B">>}

Init ==
    /\ pc = "start"
    /\ dry_run \in BOOLEAN
    /\ name_filter \in Filters
    /\ \E tok \in InheritedTokens, sock \in SockValues :
          environ = [BW_SESSION |-> tok, SSH_AUTH_SOCK |-> sock,
                     SSH_AGENT_PID |-> None]
    /\ disk \in SUBSET {"/s0"}
    /\ session_key = None
    /\ progress = InitProgress
    /\ ssh_keys = <<>>
    /\ items = <<>>
    /\ idx = 0
    /\ calls = <<>>
    /\ printed = <<>>
    /\ returned = <<>>
    /\ password = None
    /\ exit_code = -1
    /\ uncaught = ""

\* sys.exit(code)
Exit(code) == /\ pc' = "exited"
              /\ exit_code' = code
              /\ uncaught' = ""

\* an exception leaves main: traceback, exit status 1
Crash(exc) == /\ pc' = "exited"
              /\ exit_code' = 1
              /\ uncaught' = exc

\* main, line 233
Start ==
    /\ pc = "start"
    /\ progress' = StartProgress(progress, 3)
    /\ pc' = "prereq"
    /\ UNCHANGED <<items, dry_run, name_filter, environ, disk, session_key,
                   ssh_keys, idx, calls, printed, returned, password,
                   exit_code, uncaught>>

----------------------------------------------------------------------------
(* check_prerequisites *)

\* a line of ssh-agent -s output, as the fields line.split(";")[0].split("=")
\* yields
AgentLines == { <<"SSH_AUTH_SOCK", "/s1">>,
                <<"SSH_AGENT_PID", "42">>,
                <<"echo Agent pid 42">>,
                <<"SSH_AUTH_SOCK", "/s", "1">> }

VersionOutcomes == {"ok", "nonzero", "oserror"}

LaunchOutcomes ==
    [returncode : {0, 1}, stdout : SeqsUpTo(AgentLines, MaxLines)]

\* line.startswith("SSH_AUTH_SOCK=") or line.startswith("SSH_AGENT_PID=")
IsAssignment(line) ==
    /\ Len(line) >= 2
    /\ line[1] \in {"SSH_AUTH_SOCK", "SSH_AGENT_PID"}

\* the for loop of lines 82-86; ok is FALSE when the unpacking of
\* `key, value = ...` raised ValueError
RECURSIVE ParseAgentOutput(_, _)
ParseAgentOutput(lines, env) ==
    IF lines = <<>> THEN [env |-> env, ok |-> TRUE]
    ELSE LET line == Head(lines) IN
         IF ~IsAssignment(line) THEN ParseAgentOutput(Tail(lines), env)
         ELSE IF Len(line) # 2 THEN [env |-> env, ok |-> FALSE]
         ELSE ParseAgentOutput(Tail(lines),
                               [env EXCEPT ![line[1]] = Some(line[2])])

\* mutant: the exit code of the launch is not looked at
LaunchFailedIgnored(launch) == FALSE

\* if result.returncode != 0: raise Exception("Failed to start ssh-agent")
LaunchFailed(launch) == launch.returncode # 0

\* mutant: the socket path is not looked up on disk
NeedsAgentUnsetOnly(env, d) == IsNone(env.SSH_AUTH_SOCK)

\* if not os.environ.get("SSH_AUTH_SOCK") or not os.path.exists(...)
NeedsAgent(env, d) ==
    \/ IsNone(env.SSH_AUTH_SOCK)
    \/ env.SSH_AUTH_SOCK[1] = ""
    \/ env.SSH_AUTH_SOCK[1] \notin d

\* check_prerequisites: the environment it leaves, its result and the
\* commands it ran
CheckPrerequisitesResult(version, launch, env, d) ==
    LET v == Call(<<"bw", "--version">>, env.BW_SESSION, "",
                  CASE version = "ok" -> 0 [] version = "nonzero" -> 1
                    [] OTHER -> -1, "")
        a == Call(<<"ssh-agent", "-s">>, env.BW_SESSION, "",
                  launch.returncode, "")
    IN  IF version # "ok"
        THEN [env |-> env, ok |-> FALSE, ran |-> <<v>>]
        ELSE IF ~NeedsAgent(env, d)
        THEN [env |-> env, ok |-> TRUE, ran |-> <<v>>]
        ELSE IF LaunchFailed(launch)
        THEN [env |-> env, ok |-> FALSE, ran |-> <<v, a>>]
        ELSE LET r == ParseAgentOutput(launch.stdout, env)
             IN  [env |-> r.env, ok |-> r.ok, ran |-> <<v, a>>]

\* main, lines 235-240
CheckPrerequisites ==
    /\ pc = "prereq"
    /\ \E version \in VersionOutcomes, launch \in LaunchOutcomes :
         LET r == CheckPrerequisitesResult(version, launch, environ, disk)
         IN  /\ environ' = r.env
             /\ calls' = calls \o r.ran
             /\ returned' = Append(returned,
                                   Return("check_prerequisites", r.ok, r.ok,
                                          Len(calls')))
             /\ IF r.ok
                THEN /\ progress' = UpdateProgress(progress, 1)
                     /\ pc' = "session"
                     /\ printed' = printed
                     /\ UNCHANGED <<exit_code, uncaught>>
                ELSE /\ progress' = StopProgress(progress)
                     /\ printed' = Append(printed,
                                          Line("error_prereq", <<>>, None))
                     /\ Exit(1)
    /\ UNCHANGED <<items, dry_run, name_filter, disk, session_key, ssh_keys, idx,
                   password>>

----------------------------------------------------------------------------
(* get_session_key *)

\* stdout of bw status: not JSON, a JSON value that is not an object, or an
\* object with or without a "status" member
StatusOutputs ==
    { [json |-> "malformed", status |-> None],
      [json |-> "array", status |-> None],
      [json |-> "object", status |-> None],
      [json |-> "object", status |-> Some("unlocked")],
      [json |-> "object", status |-> Some("locked")],
      [json |-> "object", status |-> Some("unauthenticated")] }

\* mutant: a response that does not parse counts as an empty object
StatusRaisesNever(out) == FALSE

\* json.loads(result.stdout) followed by status.get("status"): raises on
\* text that is not JSON and on a value without .get
StatusRaises(out) == out.json # "object"

\* mutant: the token is never reused
IsUnlockedNever(out) == FALSE

\* mutant: the token is reused unless the vault says "locked"
IsUnlockedUnlessLocked(out) == out.status # Some("locked")

\* if status.get("status") == "unlocked"
IsUnlocked(out) == out.status = Some("unlocked")

\* main, lines 243-247, on the value get_session_key returned
SessionReturned(ret, prog) ==
    /\ returned' = Append(returned,
                          Return("get_session_key", ret, Truthy(ret),
                                 Len(calls')))
    /\ IF Truthy(ret)
       THEN /\ progress' = UpdateProgress(prog, 1)
            /\ IF progress'.raised
               THEN Crash("KeyError")
               ELSE /\ pc' = "list"
                    /\ UNCHANGED <<exit_code, uncaught>>
       ELSE /\ progress' = StopProgress(prog)
            /\ IF progress'.raised THEN Crash("KeyError") ELSE Exit(1)

\* get_session_key, lines 103-121: reuse of the inherited token
SessionStatus ==
    /\ pc = "session"
    /\ IF Truthy(environ.BW_SESSION)
       THEN \E out \in StatusOutputs :
              /\ calls' = Append(calls, Call(<<"bw", "status">>,
                                             environ.BW_SESSION, "", 0, out))
              /\ IF StatusRaises(out)
                 THEN /\ printed' = Append(printed,
                                           Line("error_session", <<>>, None))
                      /\ session_key' = session_key
                      /\ SessionReturned(None, progress)
                 ELSE IF IsUnlocked(out)
                 THEN /\ session_key' = environ.BW_SESSION
                      /\ printed' = printed
                      /\ SessionReturned(session_key', progress)
                 ELSE /\ pc' = "prompt"
                      /\ UNCHANGED <<session_key, printed, progress,
                                     returned, exit_code, uncaught>>
       ELSE /\ pc' = "prompt"
            /\ UNCHANGED <<session_key, printed, progress, calls,
                           returned, exit_code, uncaught>>
    /\ UNCHANGED <<items, dry_run, name_filter, environ, disk, ssh_keys, idx,
                   password>>

Passwords == {"pw"}

\* what click.prompt yields: a password, or Abort on interrupt / end of input
PromptOutcomes == {Some(pw) : pw \in Passwords} \cup {None}

\* get_session_key, lines 123-136: the password prompt.  The display is
\* always live here (main started it), so the stop_progress of line 129
\* finds its task.
Prompt ==
    /\ pc = "prompt"
    /\ ~StopProgress(progress).raised
    /\ LET stopped == IF progress.task_id # None
                      THEN StopProgress(progress) ELSE progress
       IN \E typed \in PromptOutcomes :
            /\ calls' = Append(calls, Call(<<"click.prompt">>, None, "",
                                           IF IsNone(typed) THEN -1 ELSE 0,
                                           typed))
            /\ IF IsNone(typed)
               THEN /\ printed' = Append(printed,
                                         Line("error_session", <<>>, None))
                    /\ password' = password
                    /\ SessionReturned(None, stopped)
               ELSE /\ password' = typed
                    /\ progress' =
                         IF progress.task_id # None
                         THEN UpdateProgress(StartProgress(stopped, 3), 1)
                         ELSE stopped
                    /\ printed' = printed
                    /\ pc' = "unlock"
                    /\ UNCHANGED <<returned, exit_code, uncaught>>
    /\ UNCHANGED <<items, dry_run, name_filter, environ, disk, session_key,
                   ssh_keys, idx>>

UnlockOutcomes ==
    [returncode : {0, 1}, stdout : SeqsUpTo({"n", " "}, MaxOut)]

\* mutant: the exit code of the unlock is not looked at
UnlockFailedIgnored(out) == FALSE

\* if process.returncode != 0: raise Exception("Failed to unlock ...")
UnlockFailed(out) == out.returncode # 0

\* get_session_key, lines 138-156: bw unlock
Unlock ==
    /\ pc = "unlock"
    /\ \E out \in UnlockOutcomes :
         /\ calls' = Append(calls,
                            Call(<<"bw", "unlock", password[1], "--raw">>,
                                 environ.BW_SESSION, "", out.returncode,
                                 out.stdout))
         /\ IF UnlockFailed(out)
            THEN /\ printed' = Append(printed,
                                      Line("error_session", <<>>, None))
                 /\ session_key' = session_key
                 /\ SessionReturned(None, progress)
            ELSE /\ session_key' = Some(Strip(out.stdout))
                 /\ printed' = printed
                 /\ SessionReturned(session_key', progress)
    /\ UNCHANGED <<items, dry_run, name_filter, environ, disk, ssh_keys, idx,
                   password>>

----------------------------------------------------------------------------
(* get_ssh_keys *)

\* the "sshKey" member of a vault entry: absent (None), or an object whose
\* privateKey and keyFingerprint members may be absent
SshKey(privateKey, keyFingerprint) ==
    Some([privateKey |-> privateKey, keyFingerprint |-> keyFingerprint])

Entry(name, sshKey) == [name |-> name, sshKey |-> sshKey]

\* the entries a vault listing is made of: three carry a private key, the
\* others lack the sshKey member, the privateKey member, or have it empty
VaultEntries ==
    { Entry(<<"a">>, SshKey(Some("K1"), Some("AA"))),
      Entry(<<"A", "b">>, SshKey(Some("K2"), None)),
      Entry(<<"b">>, SshKey(Some("K3"), Some("CC"))),
      Entry(<<"a">>, None),
      Entry(<<"A", "b">>, SshKey(None, None)),
      Entry(<<"b">>, SshKey(Some(""), Some("DD"))) }

\* stdout of bw list items: text that is not JSON (<<>> in `parsed` is then
\* unused), or a JSON array of entries
ListOutputs ==
    {[json |-> "malformed", items |-> <<>>]} \cup
    [json : {"array"}, items : SeqsUpTo(VaultEntries, MaxItems)]

ListOutcomes == [returncode : {0, 1}, stdout : ListOutputs]

\* mutant: the privateKey member is only required to be there
HasPrivateKeyMember(item) ==
    /\ item.sshKey # None
    /\ item.sshKey[1].privateKey # None

\* "sshKey" in item and item["sshKey"].get("privateKey")
HasPrivateKey(item) ==
    /\ item.sshKey # None
    /\ item.sshKey[1].privateKey # None
    /\ item.sshKey[1].privateKey[1] # ""

\* mutant: the entry's name is not lowered before the comparison
SelectedCaseSensitive(item, filter) ==
    /\ HasPrivateKey(item)
    /\ ~(filter # <<>> /\ ~Contains(item.name, Lower(filter)))

\* the test of lines 183-185: the entry is appended
Selected(item, filter) ==
    /\ HasPrivateKey(item)
    /\ ~(filter # <<>> /\ ~Contains(Lower(item.name), Lower(filter)))

\* the for loop of lines 181-186
RECURSIVE FilterKeys(_, _)
FilterKeys(entries, filter) ==
    IF entries = <<>> THEN <<>>
    ELSE IF Selected(Head(entries), filter)
         THEN <<Head(entries)>> \o FilterKeys(Tail(entries), filter)
         ELSE FilterKeys(Tail(entries), filter)

\* the try block of get_ssh_keys: the keys it returns and whether it
\* printed "Error retrieving SSH keys"
GetSshKeysResult(out, filter) ==
    IF out.returncode # 0 \/ out.stdout.json = "malformed"
    THEN [keys |-> <<>>, error |-> TRUE]
    ELSE [keys |-> FilterKeys(out.stdout.items, filter), error |-> FALSE]

\* item['sshKey'].get('keyFingerprint', 'unknown')
Fingerprint(item) ==
    IF item.sshKey[1].keyFingerprint = None
    THEN "unknown" ELSE item.sshKey[1].keyFingerprint[1]

\* mutant: env is os.environ itself, not a copy
EnvAfterListingShared(env, key) == [env EXCEPT !.BW_SESSION = key]

\* env = os.environ.copy(): os.environ after get_ssh_keys set BW_SESSION
\* in env
EnvAfterListing(env, key) == env

\* mutant: the listing runs with the inherited environment
ListEnvSessionInherited(env, key) == env.BW_SESSION

\* env["BW_SESSION"] = self.session_key: the token the listing runs with
ListEnvSession(env, key) == key

\* mutant: an empty key sequence is an error exit
ExitOnNoKeysAsError(keys) == IF keys = <<>> THEN Some(1) ELSE None

\* if not ssh_keys: ...; sys.exit(0): the exit code, None when main goes on
ExitOnNoKeys(keys) == IF keys = <<>> THEN Some(0) ELSE None

\* main, lines 249-255
GetSshKeys ==
    /\ pc = "list"
    /\ IF ~Truthy(session_key)
       THEN /\ Crash("Exception")
            /\ UNCHANGED <<calls, ssh_keys, printed, progress, returned>>
       ELSE \E out \in ListOutcomes :
              LET r == GetSshKeysResult(out, name_filter)
                  err == IF r.error
                         THEN <<Line("error_list", <<>>, None)>> ELSE <<>>
              IN  /\ calls' = Append(calls,
                                     Call(<<"bw", "list", "items">>,
                                          ListEnvSession(environ, session_key),
                                          "", out.returncode,
                                          out.stdout.json))
                  /\ returned' = Append(returned,
                                        Return("get_ssh_keys", r.keys,
                                               r.keys # <<>>, Len(calls')))
                  /\ ssh_keys' = r.keys
                  /\ progress' = StopProgress(progress)
                  /\ IF progress'.raised
                     THEN /\ Crash("KeyError")
                          /\ printed' = printed \o err
                     ELSE IF ExitOnNoKeys(r.keys) # None
                     THEN /\ printed' = printed \o err \o
                                        <<Line("no_keys", <<>>, None)>>
                          /\ Exit(ExitOnNoKeys(r.keys)[1])
                     ELSE /\ printed' = printed \o err
                          /\ pc' = "process"
                          /\ UNCHANGED <<exit_code, uncaught>>
    /\ environ' = EnvAfterListing(environ, session_key)
    /\ UNCHANGED <<items, dry_run, name_filter, disk, session_key, idx,
                   password>>

----------------------------------------------------------------------------
(* Processing the keys *)

\* mutant: the dry-run flag is not looked at
LoopForAlwaysAdd(dry) == "add_loop"

\* if dry_run: ... else: ... (line 258): which loop runs
LoopFor(dry) == IF dry THEN "dry_loop" ELSE "add_loop"

\* main, lines 258-259 and 263-264: entering the for loop
Process ==
    /\ pc = "process"
    /\ idx' = 1
    /\ pc' = LoopFor(dry_run)
    /\ progress' = IF pc' = "dry_loop" THEN progress
                   ELSE StartProgress(progress, Len(ssh_keys))
    /\ UNCHANGED <<items, dry_run, name_filter, environ, disk, session_key,
                   ssh_keys, calls, printed, returned, password, exit_code,
                   uncaught>>

\* main, lines 260-261: one iteration of the dry-run loop
DryRunKey ==
    /\ pc = "dry_loop"
    /\ idx <= Len(ssh_keys)
    /\ printed' = Append(printed, Line("would_add", ssh_keys[idx].name,
                                       Fingerprint(ssh_keys[idx])))
    /\ idx' = idx + 1
    /\ UNCHANGED <<items, pc, dry_run, name_filter, environ, disk, session_key,
                   progress, ssh_keys, calls, returned, password, exit_code,
                   uncaught>>

\* what ssh-add does: exits 0, exits non-zero, or cannot be spawned
AddOutcomes == {"ok", "nonzero", "oserror"}

\* add_key_to_agent: True when ssh-add exited 0, False on any exception
AddKeyToAgentResult(outcome) == outcome = "ok"

\* mutant: only the exit code is handled, a spawn error leaves the method
AddKeyRaisesOSError(outcome) == outcome = "oserror"

\* except Exception (lines 215-217): nothing is raised past add_key_to_agent
AddKeyRaises(outcome) == FALSE

\* mutant: the loop breaks at the first key that fails
NextKeyIndexBreak(i, n, added) == IF added THEN i + 1 ELSE n + 1

\* the for loop goes on to the next key whatever add_key_to_agent returned
NextKeyIndex(i, n, added) == i + 1

\* main, lines 265-271: one iteration of the adding loop
AddKey ==
    /\ pc = "add_loop"
    /\ idx <= Len(ssh_keys)
    /\ LET key == ssh_keys[idx] IN
       \E outcome \in AddOutcomes :
          LET added == AddKeyToAgentResult(outcome) IN
          /\ IF AddKeyRaises(outcome)
             THEN Crash("OSError")
             ELSE UNCHANGED <<pc, exit_code, uncaught>>
          /\ calls' = Append(calls,
                             Call(<<"ssh-add", "-">>, environ.BW_SESSION,
                                  key.sshKey[1].privateKey[1],
                                  CASE outcome = "ok" -> 0
                                    [] outcome = "nonzero" -> 1
                                    [] OTHER -> -1, ""))
          /\ returned' = Append(returned,
                                Return("add_key_to_agent", added, added,
                                       Len(calls')))
          /\ printed' =
               IF added
               THEN Append(printed, Line("added", key.name, Fingerprint(key)))
               ELSE printed \o <<Line("error_add", key.name, None),
                                 Line("failed", key.name, None)>>
          /\ idx' = NextKeyIndex(idx, Len(ssh_keys), added)
    /\ progress' = UpdateProgress(UpdateProgress(progress, 1), 1)
    /\ UNCHANGED <<items, dry_run, name_filter, environ, disk, session_key,
                   ssh_keys, password>>

\* main, lines 272-275: after the loop; returning from main exits 0
Finish ==
    /\ pc \in {"dry_loop", "add_loop"}
    /\ idx > Len(ssh_keys)
    /\ IF dry_run
       THEN /\ UNCHANGED <<progress, printed>>
            /\ Exit(0)
       ELSE /\ progress' = StopProgress(progress)
            /\ IF progress'.raised
               THEN /\ Crash("KeyError")
                    /\ printed' = printed
               ELSE /\ printed' = Append(printed,
                                         Line("completed", <<>>, None))
                    /\ Exit(0)
    /\ UNCHANGED <<items, dry_run, name_filter, environ, disk, session_key,
                   ssh_keys, idx, calls, returned, password>>

----------------------------------------------------------------------------
(* Reading the histories *)

IsLaunch(c) == c.argv = <<"ssh-agent", "-s">>
IsStatus(c) == c.argv = <<"bw", "status">>
IsPrompt(c) == c.argv = <<"click.prompt">>
IsUnlockCall(c) == Len(c.argv) = 4 /\ c.argv[1] = "bw" /\ c.argv[2] = "unlock"
IsList(c) == c.argv = <<"bw", "list", "items">>
IsAdd(c) == c.argv = <<"ssh-add", "-">>

CallIds == 1..Len(calls)
ReturnIds == 1..Len(returned)

\* the status query answered with an object whose status is "unlocked"
ReportsUnlocked(c) == c.out.json = "object" /\ c.out.status = <<"unlocked">>

\* the returns of get_session_key (at most one in a run)
SessionReturns == {r \in ReturnIds : returned[r].fn = "get_session_key"}

LinesOf(kinds) == SelectSeq(printed, LAMBDA l : l.kind \in kinds)

NoVaultOrAgentUse ==
    \A i \in CallIds : /\ ~IsStatus(calls[i])
                       /\ ~IsUnlockCall(calls[i])
                       /\ ~IsList(calls[i])
                       /\ ~IsAdd(calls[i])

----------------------------------------------------------------------------
(* Properties *)

\* C1: ssh-add is never invoked unless get_session_key has returned, before
\* that invocation, a non-empty token that is either the inherited token
\* after a status query answered "unlocked", or the output of an unlock
\* that exited 0.
C1_AddOnlyAfterSession ==
    \A i \in CallIds : IsAdd(calls[i]) =>
      \E r \in SessionReturns :
        /\ returned[r].at < i
        /\ returned[r].value # <<>>
        /\ returned[r].value[1] # <<>>
        /\ \E j \in 1..returned[r].at :
             \/ /\ IsStatus(calls[j])
                /\ ReportsUnlocked(calls[j])
                /\ returned[r].value = calls[j].session
             \/ /\ IsUnlockCall(calls[j])
                /\ calls[j].rc = 0
                /\ returned[r].value = <<Strip(calls[j].out)>>

\* a key was submitted to ssh-add in a run whose unlock exited 0
C1_Witness ==
    /\ \E i \in CallIds : IsAdd(calls[i])
    /\ \E j \in CallIds : IsUnlockCall(calls[j]) /\ calls[j].rc = 0

\* C2: every bw list items runs with BW_SESSION equal to the token
\* get_session_key returned, which is never absent or empty; after an
\* unlock it is the unlock's (stripped) output and not the inherited token.
C2_ListCarriesReturnedToken ==
    \A i \in CallIds : IsList(calls[i]) =>
      /\ calls[i].session # <<>>
      /\ calls[i].session[1] # <<>>
      /\ \E r \in SessionReturns : /\ returned[r].at < i
                                   /\ calls[i].session = returned[r].value
      /\ \A j \in 1..(i - 1) : IsUnlockCall(calls[j]) =>
           /\ calls[i].session = <<Strip(calls[j].out)>>
           /\ calls[i].session # environ.BW_SESSION

\* the inherited token was found locked, the unlock succeeded, the listing ran
C2_Witness ==
    \E s, u, l \in CallIds :
       /\ s < u /\ u < l
       /\ IsStatus(calls[s]) /\ calls[s].out.status = <<"locked">>
       /\ IsUnlockCall(calls[u]) /\ calls[u].rc = 0
       /\ IsList(calls[l])
       /\ environ.BW_SESSION = <<<<"o">>>>

\* C3: with --dry-run, ssh-add is never invoked.
C3_DryRunNeverAdds ==
    dry_run => \A i \in CallIds : ~IsAdd(calls[i])

\* a dry run with a filter listed two keys and ended
C3_Witness ==
    /\ dry_run
    /\ pc = "exited"
    /\ name_filter # <<>>
    /\ Len(ssh_keys) >= 2
    /\ Len(LinesOf({"would_add"})) = Len(ssh_keys)

\* C4: in a non-dry run, while the loop runs and when it has ended, the
\* keys submitted to ssh-add are exactly the keys processed so far, once
\* each and in sequence order, whatever the earlier outcomes; the Added and
\* Failed lines are one per key, and at the end there are Len(ssh_keys).
C4_EveryKeySubmittedOnce ==
    (~dry_run /\ ssh_keys # <<>> /\ pc \in {"add_loop", "exited"}) =>
      LET adds == SelectSeq(calls, IsAdd)
          outcomes == LinesOf({"added", "failed"})
          done == IF pc = "exited" THEN Len(ssh_keys) ELSE idx - 1
      IN  /\ uncaught = ""
          /\ Len(adds) = done
          /\ Len(outcomes) = done
          /\ \A k \in 1..done :
               /\ adds[k].input = ssh_keys[k].sshKey[1].privateKey[1]
               /\ outcomes[k].name = ssh_keys[k].name
               /\ (outcomes[k].kind = "added") = (adds[k].rc = 0)

\* the loop ended after a failed add that was followed by a successful one
C4_Witness ==
    /\ ~dry_run
    /\ pc = "exited"
    /\ Len(ssh_keys) >= 2
    /\ LET outcomes == LinesOf({"added", "failed"})
       IN  /\ Len(outcomes) = Len(ssh_keys)
           /\ outcomes[1].kind = "failed"
           /\ outcomes[2].kind = "added"

\* C5: when bw list items exits non-zero the run ends with exit code 1 and
\* does not report an empty key sequence.
C5_ListFailureExits1 ==
    \A i \in CallIds : (IsList(calls[i]) /\ calls[i].rc # 0) =>
      /\ pc = "exited"
      /\ exit_code = 1
      /\ LinesOf({"no_keys"}) = <<>>

\* C6: when there is an inherited token and bw status answers "unlocked",
\* get_session_key returns that token right after the status query; no
\* prompt and no unlock happen in the run.
C6_UnlockedTokenReused ==
    \A j \in CallIds : (IsStatus(calls[j]) /\ ReportsUnlocked(calls[j])) =>
      /\ \E r \in SessionReturns : /\ returned[r].at = j
                                   /\ returned[r].value = calls[j].session
                                   /\ returned[r].value = environ.BW_SESSION
      /\ session_key = environ.BW_SESSION
      /\ \A i \in CallIds : ~IsPrompt(calls[i]) /\ ~IsUnlockCall(calls[i])

\* the token was reused and the run went on to list the vault
C6_Witness ==
    /\ \E j \in CallIds : IsStatus(calls[j]) /\ ReportsUnlocked(calls[j])
    /\ \E i \in CallIds : IsList(calls[i])

\* C7 as claimed: whenever bw status answers anything but "unlocked",
\* malformed output included, the password prompt follows.
C7_AnyOtherStatusPrompts ==
    \A j \in CallIds : (IsStatus(calls[j]) /\ ~ReportsUnlocked(calls[j])) =>
      \/ pc = "prompt"
      \/ \E i \in CallIds : i > j /\ IsPrompt(calls[i])

\* C7 amended: whenever bw status answers with a JSON object whose status
\* is not "unlocked" (or is missing), the password prompt follows.
C7_OtherObjectStatusPrompts ==
    \A j \in CallIds :
      (/\ IsStatus(calls[j])
       /\ calls[j].out.json = "object"
       /\ ~ReportsUnlocked(calls[j])) =>
      \/ pc = "prompt"
      \/ \E i \in CallIds : i = j + 1 /\ IsPrompt(calls[i])

\* the status object had no status member and the prompt was shown
C7_Witness ==
    \E j \in CallIds :
       /\ IsStatus(calls[j])
       /\ calls[j].out.json = "object"
       /\ calls[j].out.status = <<>>
       /\ j < Len(calls)
       /\ IsPrompt(calls[j + 1])

\* C8: when bw status answers with text that does not parse, session
\* acquisition fails and the run ends with exit code 1, with no unlock,
\* listing or ssh-add invocation.
C8_MalformedStatusIsFatal ==
    \A j \in CallIds :
      (IsStatus(calls[j]) /\ calls[j].out.json = "malformed") =>
      /\ pc = "exited"
      /\ exit_code = 1
      /\ \E r \in SessionReturns : returned[r].at = j /\ ~returned[r].ok
      /\ \A i \in CallIds : /\ ~IsUnlockCall(calls[i])
                            /\ ~IsList(calls[i])
                            /\ ~IsAdd(calls[i])

\* a run ended on a malformed status response
C8_Witness ==
    /\ pc = "exited"
    /\ \E j \in CallIds : IsStatus(calls[j]) /\ calls[j].out.json = "malformed"

\* C9: when the agent had to be launched and ssh-agent exits non-zero, the
\* run ends with exit code 1 and no bw status, bw unlock, bw list items or
\* ssh-add invocation (and no prompt) is made.
C9_LaunchFailureBeforeVault ==
    \A j \in CallIds : (IsLaunch(calls[j]) /\ calls[j].rc # 0) =>
      /\ pc = "exited"
      /\ exit_code = 1
      /\ NoVaultOrAgentUse
      /\ \A i \in CallIds : ~IsPrompt(calls[i])

\* the socket variable named a path that does not exist, the launch
\* failed and the run ended
C9_Witness ==
    /\ \E j \in CallIds : IsLaunch(calls[j]) /\ calls[j].rc # 0
    /\ environ.SSH_AUTH_SOCK # <<>>
    /\ environ.SSH_AUTH_SOCK[1] \notin disk
    /\ pc = "exited"

\* C11: under FairSpec, a run that is in the adding loop (non-dry, keys
\* found) ends with exit code 0 and no exception, whatever ssh-add did for
\* each key.
C11_ProvisioningReachesDone ==
    (pc = "add_loop") ~> (pc = "exited" /\ exit_code = 0 /\ uncaught = "")

\* the run ended with exit code 0 although every one of its keys failed
C11_Witness ==
    /\ ~dry_run
    /\ pc = "exited"
    /\ exit_code = 0
    /\ Len(ssh_keys) >= 2
    /\ Len(LinesOf({"failed"})) = Len(ssh_keys)

\* the entry has an sshKey member with a non-empty privateKey
CarriesKey(e) ==
    /\ e.sshKey # <<>>
    /\ e.sshKey[1].privateKey # <<>>
    /\ e.sshKey[1].privateKey[1] # ""

FoldCase(c) == IF c \in {"a", "A"} THEN "a"
               ELSE IF c \in {"b", "B"} THEN "b" ELSE c

\* f occurs in name when case is ignored (always, when f is empty)
NameHasFilter(name, f) ==
    \E o \in 0..(Len(name) - Len(f)) :
       \A k \in 1..Len(f) : FoldCase(name[o + k]) = FoldCase(f[k])

\* the positions of the listing the claim wants in the result
WantedIds ==
    {i \in 1..Len(items) : /\ CarriesKey(items[i])
                           /\ NameHasFilter(items[i].name, name_filter)}

\* the k-th of them in listing order
NthWanted(k) ==
    CHOOSE i \in WantedIds : Cardinality({j \in WantedIds : j <= i}) = k

\* C12: when get_ssh_keys returns, its result is exactly the entries of the
\* listing that carry a private key and whose name contains the filter
\* case-insensitively, each once and in listing order; it is what
\* FilterKeys computes in one step for main.
C12_FilterIsExact ==
    pc = "filtered" =>
      /\ Len(ssh_keys) = Cardinality(WantedIds)
      /\ \A k \in 1..Len(ssh_keys) : ssh_keys[k] = items[NthWanted(k)]
      /\ ssh_keys = FilterKeys(items, name_filter)

\* a two-letter filter in other case kept one keyed entry and dropped another
C12_Witness ==
    /\ pc = "filtered"
    /\ name_filter = <<"a", "B">>
    /\ Len(items) = 2
    /\ CarriesKey(items[1]) /\ CarriesKey(items[2])
    /\ ssh_keys = <<items[2]>>
    /\ items[2].name = <<"A", "b">>

\* C13: at every point of get_ssh_keys, for every listing and filter, each
\* entry of ssh_keys carries a non-empty private key; an entry without
\* sshKey, without privateKey or with an empty one is not in it.
C13_NoKeylessEntry ==
    /\ \A k \in 1..Len(ssh_keys) : CarriesKey(ssh_keys[k])
    /\ \A i \in 1..Len(items) : ~CarriesKey(items[i]) =>
          \A k \in 1..Len(ssh_keys) : ssh_keys[k] # items[i]

\* without a filter, a listing of an entry with an empty private key and a
\* keyed entry gave the keyed entry alone
C13_Witness ==
    /\ pc = "filtered"
    /\ name_filter = <<>>
    /\ Len(items) = 2
    /\ items[1].sshKey # <<>>
    /\ items[1].sshKey[1].privateKey = <<"">>
    /\ CarriesKey(items[2])
    /\ ssh_keys = <<items[2]>>

\* the names of a sequence of entries or of console lines
NamesOf(seq) == [k \in 1..Len(seq) |-> seq[k].name]

\* C14: a run that got a non-empty key sequence ends with exit code 0; a
\* dry run has then printed, as "would add", the names of ssh_keys in
\* order and made no ssh-add invocation; a non-dry run has submitted the
\* private keys of ssh_keys in order, one Added or Failed line each.  (The
\* key sequence itself does not depend on the flag, see C12.)
C14_DryRunListsWhatIsAdded ==
    (pc = "exited" /\ ssh_keys # <<>>) =>
      LET adds == SelectSeq(calls, IsAdd) IN
      /\ exit_code = 0
      /\ IF dry_run
         THEN /\ NamesOf(LinesOf({"would_add"})) = NamesOf(ssh_keys)
              /\ adds = <<>>
              /\ LinesOf({"added", "failed"}) = <<>>
         ELSE /\ NamesOf(LinesOf({"added", "failed"})) = NamesOf(ssh_keys)
              /\ [k \in 1..Len(adds) |-> adds[k].input] =
                   [k \in 1..Len(ssh_keys) |->
                      ssh_keys[k].sshKey[1].privateKey[1]]
              /\ LinesOf({"would_add"}) = <<>>

\* a dry run printed two different names with their fingerprints and ended
C14_Witness ==
    /\ dry_run
    /\ pc = "exited"
    /\ exit_code = 0
    /\ Len(ssh_keys) = 2
    /\ ssh_keys[1].name # ssh_keys[2].name
    /\ LET lines == LinesOf({"would_add"})
       IN  /\ Len(lines) = 2
           /\ lines[1].fingerprint = "unknown" \/ lines[2].fingerprint = "unknown"

PrereqPassed ==
    \E r \in ReturnIds :
       returned[r].fn = "check_prerequisites" /\ returned[r].ok

\* C15: once check_prerequisites has succeeded, SSH_AUTH_SOCK is set (to a
\* non-empty value) in the process environment.
C15_SocketSetAfterCheck ==
    PrereqPassed => /\ environ.SSH_AUTH_SOCK # <<>>
                    /\ environ.SSH_AUTH_SOCK[1] # ""

\* C16: the password prompt and bw unlock happen at most once in a run; an
\* unlock that exits non-zero is the last invocation of the run, which has
\* then ended with exit code 1 without listing or ssh-add.
C16_NoUnlockRetry ==
    /\ Cardinality({i \in CallIds : IsPrompt(calls[i])}) <= 1
    /\ Cardinality({i \in CallIds : IsUnlockCall(calls[i])}) <= 1
    /\ \A u \in CallIds : (IsUnlockCall(calls[u]) /\ calls[u].rc # 0) =>
         /\ pc = "exited"
         /\ exit_code = 1
         /\ u = Len(calls)
         /\ \A i \in CallIds : ~IsList(calls[i]) /\ ~IsAdd(calls[i])

\* a run ended on an unlock that exited non-zero although it printed a token
C16_Witness ==
    /\ pc = "exited"
    /\ \E u \in CallIds : /\ IsUnlockCall(calls[u])
                           /\ calls[u].rc # 0
                           /\ Strip(calls[u].out) # <<>>

\* C17: no step after check_prerequisites changes os.environ; no step at
\* all changes BW_SESSION in it; check_prerequisites changes it only when
\* it launched an agent that exited 0.
C17_EnvironWrittenOnlyByProbe ==
    [][/\ pc # "prereq" => environ' = environ
       /\ environ'.BW_SESSION = environ.BW_SESSION
       /\ environ' # environ =>
            \E i \in 1..Len(calls') : /\ IsLaunch(calls'[i])
                                      /\ calls'[i].rc = 0]_vars

\* the probe wrote the agent variables, and the listing ran with a fresh
\* token that is not in os.environ
C17_Witness ==
    /\ pc = "exited"
    /\ environ.SSH_AUTH_SOCK = <<"/s1">>
    /\ environ.SSH_AGENT_PID = <<"42">>
    /\ \E i \in CallIds : /\ IsList(calls[i])
                           /\ calls[i].session # environ.BW_SESSION

\* C18: ssh-agent is launched at most once in a run; check_prerequisites
\* launches it exactly when bw --version passed and SSH_AUTH_SOCK is unset
\* or names a path that is not on disk; without a launch the environment
\* is left as it was.
C18_LaunchIffNeeded ==
    [][LET launched == \E i \in 1..Len(calls') : IsLaunch(calls'[i])
       IN  /\ Cardinality({i \in 1..Len(calls') : IsLaunch(calls'[i])}) <= 1
           /\ pc = "prereq" =>
                /\ launched =
                     (/\ calls'[Len(calls) + 1].rc = 0
                      /\ \/ environ.SSH_AUTH_SOCK = <<>>
                         \/ environ.SSH_AUTH_SOCK[1] \notin disk)
                /\ ~launched => environ' = environ]_vars

\* the socket variable named a path that is not on disk, and the agent was
\* launched
C18_Witness ==
    /\ pc = "session"
    /\ Cardinality({i \in CallIds : IsLaunch(calls[i])}) = 1
    /\ environ.SSH_AUTH_SOCK = <<"/s0">>
    /\ disk = {}

\* C19: stop_progress and update_progress always find the live task (no
\* KeyError from a task removed twice), the display is live exactly while
\* one task exists, and a run that has ended has stopped it.
C19_StartStopAlternate ==
    /\ ~progress.raised
    /\ uncaught # "KeyError"
    /\ Cardinality(DOMAIN progress.tasks) <= 1
    /\ progress.live = (DOMAIN progress.tasks # {})
    /\ pc = "exited" => ~progress.live

\* C20: the completed count of the progress task never exceeds its total;
\* it is 2 on entering the listing step, and equals the number of keys
\* when the adding loop has processed the last key.
C20_CompletedAtMostTotal ==
    /\ \A t \in DOMAIN progress.tasks :
          progress.tasks[t].completed <= progress.tasks[t].total
    /\ pc = "list" =>
          \A t \in DOMAIN progress.tasks : progress.tasks[t].completed = 2
    /\ (pc = "add_loop" /\ idx > Len(ssh_keys)) =>
          \A t \in DOMAIN progress.tasks :
             progress.tasks[t].completed = Len(ssh_keys)

PrereqOrSessionFailed ==
    \E r \in ReturnIds :
       /\ returned[r].fn \in {"check_prerequisites", "get_session_key"}
       /\ ~returned[r].ok

\* C10: a run that has ended exits 1 exactly when check_prerequisites or
\* get_session_key failed, and 0 otherwise; a run whose key sequence is
\* empty exits 0 after "No SSH keys found in vault" with no ssh-add, and a
\* dry run that got its keys exits 0.
C10_ExitCodes ==
    pc = "exited" =>
      /\ exit_code \in {0, 1}
      /\ (exit_code = 1) = PrereqOrSessionFailed
      /\ \A r \in ReturnIds :
           (returned[r].fn = "get_ssh_keys" /\ returned[r].value = <<>>) =>
             /\ exit_code = 0
             /\ Len(LinesOf({"no_keys"})) = 1
             /\ \A i \in CallIds : ~IsAdd(calls[i])
      /\ (dry_run /\ ssh_keys # <<>>) => exit_code = 0

\* a run ended on an empty key sequence
C10_Witness ==
    /\ pc = "exited"
    /\ exit_code = 0
    /\ \E r \in ReturnIds :
          returned[r].fn = "get_ssh_keys" /\ returned[r].value = <<>>
    /\ Len(LinesOf({"no_keys"})) = 1

----------------------------------------------------------------------------

Next ==
    \/ Start
    \/ CheckPrerequisites
    \/ SessionStatus
    \/ Prompt
    \/ Unlock
    \/ GetSshKeys
    \/ Process
    \/ DryRunKey
    \/ AddKey
    \/ Finish

Spec == Init /\ [][Next]_vars

\* get_ssh_keys from line 178 on, statement by statement: the listing has
\* been parsed into items
FilterInit ==
    /\ pc = "filtering"
    /\ dry_run = FALSE
    /\ name_filter \in Filters
    /\ environ = [BW_SESSION |-> None, SSH_AUTH_SOCK |-> Some("/s0"),
                  SSH_AGENT_PID |-> None]
    /\ disk = {"/s0"}
    /\ session_key = Some(<<"n">>)
    /\ progress = UpdateProgress(UpdateProgress(
                     StartProgress(InitProgress, 3), 1), 1)
    /\ items \in SeqsUpTo(VaultEntries, MaxItems)
    /\ ssh_keys = <<>>
    /\ idx = 1
    /\ calls = <<>>
    /\ printed = <<>>
    /\ returned = <<>>
    /\ password = None
    /\ exit_code = -1
    /\ uncaught = ""

\* lines 182-186: one iteration of the for loop over items
FilterItem ==
    /\ pc = "filtering"
    /\ idx <= Len(items)
    /\ ssh_keys' = IF Selected(items[idx], name_filter)
                   THEN Append(ssh_keys, items[idx]) ELSE ssh_keys
    /\ idx' = idx + 1
    /\ UNCHANGED <<pc, dry_run, name_filter, environ, disk, session_key,
                   progress, items, calls, printed, returned, password,
                   exit_code, uncaught>>

\* lines 188-189: the loop is over, ssh_keys is returned
FilterReturn ==
    /\ pc = "filtering"
    /\ idx > Len(items)
    /\ pc' = "filtered"
    /\ UNCHANGED <<dry_run, name_filter, environ, disk, session_key,
                   progress, ssh_keys, items, idx, calls, printed, returned,
                   password, exit_code, uncaught>>

FilterNext ==
    \/ FilterItem
    \/ FilterReturn

FilterSpec == FilterInit /\ [][FilterNext]_vars

\* runs without a name filter whose agent socket is already there: the
\* inputs that decide nothing about the processing of the keys are fixed
FairInit ==
    /\ Init
    /\ name_filter = <<>>
    /\ environ.SSH_AUTH_SOCK = Some("/s0")
    /\ disk = {"/s0"}

\* main is one sequential thread: as long as every command it waits for
\* returns, its next step is taken
FairSpec == FairInit /\ [][Next]_vars /\ WF_vars(Next)
====
